---------------------------- MODULE Spec2Model ----------------------------
(***************************************************************************)
(* A model of scripts/fetch_spotify_data.py: the sequential run of main()  *)
(* (credentials, playlist configuration, token request, then per playlist  *)
(* the snapshot request, the pagination walk, the audio-feature batches,   *)
(* normalisation and the raw file, and at the end the dataset), and its    *)
(* pure functions (chunked, parse_release_year, build_track_payload,       *)
(* normalize_playlist, fetch_audio_features).                              *)
(*                                                                         *)
(* Conventions.  A Python string the code slices, parses, joins or sorts   *)
(* is a tuple of one-character strings; an identifier the code only        *)
(* compares or uses as a key (slug, track id, playlist id) is a TLA+       *)
(* string or a number.  An optional value is a tuple of length 0 (None, or *)
(* a missing key) or 1.  A Python dict is a function, and its key order,   *)
(* where the code iterates it, a sequence.                                 *)
(***************************************************************************)
EXTENDS Integers, Sequences, FiniteSets, TLC

VARIABLES
    pc,                 \* position of main(): the statement about to run
    creds,              \* SPOTIFY_CLIENT_ID and SPOTIFY_CLIENT_SECRET both set
    config_file,        \* what data/playlist_config.json holds
    playlist_config,    \* the loaded configuration, in iteration order
    idx,                \* index of the playlist the loop is at
    track_items,        \* items collected so far for the current playlist
    next_url,           \* the pagination cursor of the current playlist
    track_ids,          \* ids handed to fetch_audio_features
    batchNo,            \* index of the next batch of fetch_audio_features
    audio_features,     \* the map fetch_audio_features builds
    failed_batches,     \* batches whose request raised HTTPError (the warnings)
    playlists_payload,  \* main's playlists_payload
    missing_artists,    \* main's run-wide missing_artists
    skipped_playlists,  \* main's skipped_playlists
    raw_files,          \* data/raw/<slug>.json: slug -> payload
    dataset,            \* the dataset written at the end, or None
    requests,           \* every network request issued so far, in order
    abort               \* why the run ended early ("" while it has not)

vars == <<pc, creds, config_file, playlist_config, idx, track_items, next_url,
          track_ids, batchNo, audio_features, failed_batches, playlists_payload,
          missing_artists, skipped_playlists, raw_files, dataset, requests, abort>>

-----------------------------------------------------------------------------
(* Bounds of the model and constants of the program. *)

\* Configured playlists in a run.
MaxPlaylists == 2
\* Track items the catalog returns during a run, over all its playlists.
MaxItems == 2
\* Track items of the list normalize_playlist is given when checked on its own.
MaxTrackItems == 3
\* Track ids given to fetch_audio_features when it is checked on its own.
MaxIds == 250
\* chunked(track_ids, 100)
BatchSize == 100
\* (message or "")[:200]
MessageLimit == 200

None == << >>
Some(x) == <<x>>
Min(a, b) == IF a < b THEN a ELSE b
Range(s) == {s[i] : i \in 1..Len(s)}
Prefix(s, n) == SubSeq(s, 1, Min(Len(s), n))

-----------------------------------------------------------------------------
(* Characters: code points, as sorted() and int() use them. *)

CodePoint ==
    [c \in {" ", ",", "-", "0", "1", "2", "3", "4", "5", "6", "7", "8", "9",
            "?", "A", "B", "R", "T", "U", "Z", "a", "b", "c", "d", "e", "i",
            "k", "m", "n", "o", "t", "w", "x"} |->
        CASE c = " " -> 32 [] c = "," -> 44 [] c = "-" -> 45
          [] c = "0" -> 48 [] c = "1" -> 49 [] c = "2" -> 50 [] c = "3" -> 51
          [] c = "4" -> 52 [] c = "5" -> 53 [] c = "6" -> 54 [] c = "7" -> 55
          [] c = "8" -> 56 [] c = "9" -> 57 [] c = "?" -> 63
          [] c = "A" -> 65 [] c = "B" -> 66 [] c = "R" -> 82 [] c = "T" -> 84
          [] c = "U" -> 85 [] c = "Z" -> 90
          [] c = "a" -> 97 [] c = "b" -> 98 [] c = "c" -> 99 [] c = "d" -> 100
          [] c = "e" -> 101 [] c = "i" -> 105 [] c = "k" -> 107
          [] c = "m" -> 109 [] c = "n" -> 110 [] c = "o" -> 111
          [] c = "t" -> 116 [] c = "w" -> 119 [] c = "x" -> 120]

IsDigit(c) == CodePoint[c] >= 48 /\ CodePoint[c] <= 57
DigitVal(c) == CodePoint[c] - 48
DigitChar(d) == <<"0", "1", "2", "3", "4", "5", "6", "7", "8", "9">>[d + 1]
AllDigits(s) == \A i \in 1..Len(s) : IsDigit(s[i])

RECURSIVE DigitsValue(_)
DigitsValue(s) ==
    IF s = << >> THEN 0
    ELSE 10 * DigitsValue(SubSeq(s, 1, Len(s) - 1)) + DigitVal(s[Len(s)])

\* str(n) of a non-negative integer.
RECURSIVE Str(_)
Str(n) == IF n < 10 THEN <<DigitChar(n)>>
          ELSE Append(Str(n \div 10), DigitChar(n % 10))

\* s < t in Python's order of strings (by code point, a proper prefix first).
RECURSIVE StrLess(_, _)
StrLess(s, t) ==
    IF t = << >> THEN FALSE
    ELSE IF s = << >> THEN TRUE
    ELSE IF s[1] # t[1] THEN CodePoint[s[1]] < CodePoint[t[1]]
    ELSE StrLess(Tail(s), Tail(t))

\* A list of the set in the opposite order.
RECURSIVE SortedDescending(_)
SortedDescending(S) ==
    IF S = {} THEN << >>
    ELSE LET greatest == CHOOSE s \in S : \A t \in S \ {s} : StrLess(t, s)
         IN <<greatest>> \o SortedDescending(S \ {greatest})

\* sorted(S) of a set of strings.
RECURSIVE Sorted(_)
Sorted(S) ==
    IF S = {} THEN << >>
    ELSE LET least == CHOOSE s \in S : \A t \in S \ {s} : StrLess(s, t)
         IN <<least>> \o Sorted(S \ {least})

-----------------------------------------------------------------------------
(* parse_release_year *)

\* int(s) of a string of digits and "-": the value, or None on ValueError.
\* (Inputs hold no whitespace, "+" or "_", which int() also accepts.)
IntOf(s) ==
    IF s # << >> /\ AllDigits(s) THEN Some(DigitsValue(s))
    ELSE IF Len(s) >= 2 /\ s[1] = "-" /\ AllDigits(Tail(s))
         THEN Some(0 - DigitsValue(Tail(s)))
    ELSE None

IsLeap(y) == (y % 4 = 0 /\ y % 100 # 0) \/ y % 400 = 0
DaysInMonth(y, m) ==
    IF m = 2 THEN (IF IsLeap(y) THEN 29 ELSE 28)
    ELSE IF m \in {4, 6, 9, 11} THEN 30 ELSE 31

\* datetime.fromisoformat(s).year for s of at most 10 characters in the
\* calendar form YYYY-MM-DD; None stands for ValueError.  (The week and basic
\* forms newer interpreters also read are not among the inputs.)
FromIsoYear(s) ==
    IF /\ Len(s) = 10
       /\ s[5] = "-" /\ s[8] = "-"
       /\ AllDigits(SubSeq(s, 1, 4)) /\ AllDigits(SubSeq(s, 6, 7))
       /\ AllDigits(SubSeq(s, 9, 10))
    THEN LET y == DigitsValue(SubSeq(s, 1, 4))
             m == DigitsValue(SubSeq(s, 6, 7))
             d == DigitsValue(SubSeq(s, 9, 10))
         IN IF y >= 1 /\ m >= 1 /\ m <= 12 /\ d >= 1 /\ d <= DaysInMonth(y, m)
            THEN Some(y) ELSE None
    ELSE None

\* release_date is None for a missing album, a missing date or an empty one
\* ("not album", "not release_date").
parse_release_year(release_date) ==
    IF release_date = None \/ release_date[1] = << >> THEN None
    ELSE LET iso == FromIsoYear(Prefix(release_date[1], 10))
         IN IF iso # None THEN iso
            ELSE IntOf(Prefix(release_date[1], 4))

-----------------------------------------------------------------------------
(* Track items, as the playlist endpoints return them.                     *)
(* kind: "absent" (the item has no "track" key), "null" ("track": null) or *)
(* "track"; the other fields are those of the nested track, and            *)
(* release_date is album.release_date (None when either is missing).       *)

Rema   == <<"R", "e", "m", "a">>
Rotimi == <<"R", "o", "t", "i", "m", "i">>
Unknown == <<"U", "n", "k", "n", "o", "w", "n">>

\* load_artist_metadata: two rows of the built-in table.
artist_metadata ==
    (Rema :> [artistCountry |-> "Nigeria", regionGroup |-> "Nigeria",
              diaspora |-> FALSE])
    @@ (Rotimi :> [artistCountry |-> "United States",
                   regionGroup |-> "US Diaspora", diaspora |-> TRUE])

\* ", ".join(names)
RECURSIVE Join(_)
Join(names) ==
    IF names = << >> THEN << >>
    ELSE IF Len(names) = 1 THEN names[1]
    ELSE names[1] \o <<",", " ">> \o Join(Tail(names))

\* The five fields build_track_payload copies from an audio-feature entry.
FeaturesBlock(feature) ==
    [danceability |-> feature.danceability, energy |-> feature.energy,
     valence |-> feature.valence, tempo |-> feature.tempo,
     acousticness |-> feature.acousticness]

\* build_track_payload: the payload (None when the item is dropped) and the
\* missing-artist set after the call.  feature is audio_features.get(id).
build_track_payload(track_item, feature, metadata_table, missing) ==
    IF track_item.kind # "track" \/ track_item.is_local
    THEN [payload |-> None, missing |-> missing]
    ELSE IF track_item.id = None
    THEN [payload |-> None, missing |-> missing]
    ELSE LET artists == track_item.artists
             joined == Join(artists)
             artist_names == IF joined = << >> THEN Unknown ELSE joined
             primary_artist == IF artists # << >> THEN Some(artists[1]) ELSE None
             truthy == primary_artist # None /\ primary_artist[1] # << >>
             metadata == IF truthy /\ primary_artist[1] \in DOMAIN metadata_table
                         THEN Some(metadata_table[primary_artist[1]])
                         ELSE None
         IN [payload |-> Some(
                [id |-> track_item.id[1],
                 artist |-> artist_names,
                 artistCountry |-> IF metadata # None
                                   THEN metadata[1].artistCountry ELSE "Unknown",
                 regionGroup |-> IF metadata # None
                                 THEN metadata[1].regionGroup ELSE "Unknown",
                 diaspora |-> IF metadata # None
                              THEN metadata[1].diaspora ELSE FALSE,
                 releaseYear |-> parse_release_year(track_item.release_date),
                 features |-> IF feature # None
                              THEN Some(FeaturesBlock(feature[1])) ELSE None]),
             missing |-> IF metadata = None /\ truthy
                         THEN missing \cup {primary_artist[1]} ELSE missing]

\* item.get("track", {}).get(key): AttributeError when "track" is null.
Raises(track_item) == track_item.kind = "null"

\* audio_features.get(item.get("track", {}).get("id"))
FeatureFor(track_item, features) ==
    IF track_item.kind = "track" /\ track_item.id # None
       /\ track_item.id[1] \in DOMAIN features
    THEN Some(features[track_item.id[1]]) ELSE None

\* The first loop of normalize_playlist over items[i..]: tracks_payload and
\* the missing set, or raised.
RECURSIVE PayloadLoop(_, _, _, _, _)
PayloadLoop(items, i, features, acc, missing) ==
    IF i > Len(items) THEN [raised |-> FALSE, tracks |-> acc, missing |-> missing]
    ELSE IF Raises(items[i])
    THEN [raised |-> TRUE, tracks |-> acc, missing |-> missing]
    ELSE LET r == build_track_payload(items[i], FeatureFor(items[i], features),
                                      artist_metadata, missing)
         IN PayloadLoop(items, i + 1, features,
                        IF r.payload # None THEN Append(acc, r.payload[1]) ELSE acc,
                        r.missing)

\* "if first_year:" of the second loop.
Truthy(year) == year # None /\ year[1] # 0

\* The second loop of normalize_playlist: launch_year.
RECURSIVE LaunchYear(_, _)
LaunchYear(items, i) ==
    IF i > Len(items) THEN None
    ELSE LET first_year == IF items[i].kind = "track"
                           THEN parse_release_year(items[i].release_date)
                           ELSE None
         IN IF Truthy(first_year) THEN first_year ELSE LaunchYear(items, i + 1)

\* normalize_playlist: the record (id, launchYear, tracks; the name, curator,
\* follower and description fields copy the snapshot and are left out) and
\* the missing set, or raised (an AttributeError leaves the function).
normalize_playlist(playlist_id, items, features, missing) ==
    LET loop == PayloadLoop(items, 1, features, << >>, missing)
    IN [raised |-> loop.raised,
        missing |-> loop.missing,
        record |-> [id |-> playlist_id,
                    launchYear |-> LaunchYear(items, 1),
                    tracks |-> loop.tracks]]

-----------------------------------------------------------------------------
(* chunked and fetch_audio_features *)

\* chunked with "len(chunk) > size" for its test: chunks of size + 1.
RECURSIVE chunkedLate(_, _)
chunkedLate(ids, size) ==
    IF ids = << >> THEN << >>
    ELSE IF Len(ids) <= size + 1 THEN <<ids>>
    ELSE <<SubSeq(ids, 1, size + 1)>>
         \o chunkedLate(SubSeq(ids, size + 2, Len(ids)), size)

\* list(chunked(ids, size)): a chunk is yielded when it holds size items, and
\* what is left at the end when it is not empty.
RECURSIVE chunked(_, _)
chunked(ids, size) ==
    IF ids = << >> THEN << >>
    ELSE IF Len(ids) <= size THEN <<ids>>
    ELSE <<SubSeq(ids, 1, size)>> \o chunked(SubSeq(ids, size + 1, Len(ids)), size)

\* An entry of a response's "audio_features" list: the features of an id, an
\* entry without id, or null (None).
FeatureEntry(id) ==
    [id |-> id, danceability |-> 7, energy |-> 6, valence |-> 5, tempo |-> 120,
     acousticness |-> 1]

\* The loop over a response's entries: entries that are null or have no id
\* are passed over, the others are stored under their id, a later one over an
\* earlier one and over what the map held.
StoreEntries(entries, features) ==
    LET stored == {i \in 1..Len(entries) :
                      entries[i] # None /\ entries[i][1].id # None}
        ids == {entries[i][1].id[1] : i \in stored}
        last(id) == CHOOSE i \in stored :
                       /\ entries[i][1].id[1] = id
                       /\ \A j \in stored : entries[j][1].id[1] = id => j <= i
    IN [id \in ids \cup DOMAIN features |->
           IF id \in ids THEN entries[last(id)][1] ELSE features[id]]

\* The ids main() hands to fetch_audio_features: of every item with a truthy
\* track, the id, when it is truthy.
RECURSIVE CollectTrackIds(_)
CollectTrackIds(items) ==
    IF items = << >> THEN << >>
    ELSE LET item == items[1]
             here == IF item.kind = "track" /\ item.id # None
                     THEN <<item.id[1]>> ELSE << >>
         IN here \o CollectTrackIds(Tail(items))

-----------------------------------------------------------------------------
(* What the run reads and what the network answers. *)

Zed == <<"Z", "e", "d">>
Abe == <<"A", "b", "e">>
bob == <<"b", "o", "b">>

Track(id, is_local, artists, release_date) ==
    [kind |-> "track", id |-> id, is_local |-> is_local, artists |-> artists,
     release_date |-> release_date]
NoTrack(kind) ==
    [kind |-> kind, id |-> None, is_local |-> FALSE, artists |-> << >>,
     release_date |-> None]

NullItem  == NoTrack("null")
LocalItem == Track(Some("t9"), TRUE, <<Abe>>, Some(<<"2", "0", "2", "1">>))
KnownItem == Track(Some("t1"), FALSE, <<Rema, Zed>>,
                   Some(<<"2", "0", "2", "3", "-", "0", "5", "-", "1", "0">>))
ZedItem   == Track(Some("t2"), FALSE, <<Zed>>,
                   Some(<<"2", "0", "2", "2", "-", "1", "3", "-", "0", "1">>))
BobItem   == Track(Some("t3"), FALSE, <<bob, Rema>>, Some(<<"0", "0", "0", "0">>))

NamelessItem == Track(Some("t4"), FALSE, << << >> >>, None)

\* Items a page of a run may hold.
RunItems == {NullItem, LocalItem, KnownItem, ZedItem, BobItem, NamelessItem}

\* Items of the lists normalize_playlist is checked on, on its own.
ItemPool ==
    RunItems \cup
    { NoTrack("absent"),
      Track(None, FALSE, <<Zed>>, Some(<<"2", "0", "1", "9", "-", "0", "7">>)),
      Track(Some("t2"), FALSE, << >>, Some(<<"a", "b", "c", "d">>)),
      Track(Some("t5"), FALSE, <<Rotimi>>,
            Some(<<"2", "0", "2", "0", "-", "0", "2", "-", "2", "9", "T", "0", "0">>)) }

Slugs == <<"a", "b", "c", "d">>
PlaylistIds == <<"p1", "p2", "p3", "p4">>

\* The playlist configurations a run may load: slugs in file order, each
\* entry with or without its "id".
Configs ==
    UNION { { [i \in 1..n |-> [slug |-> Slugs[i],
                               id |-> IF i \in withId THEN Some(PlaylistIds[i])
                                      ELSE None]]
              : withId \in SUBSET (1..n) }
            : n \in 1..MaxPlaylists }

\* data/playlist_config.json: not JSON, JSON that is no object, an empty
\* object, or a configuration.  (The built-in table of nine playlists, used
\* when the file does not exist, is not among the inputs.)
ConfigFiles ==
    { [kind |-> k, playlists |-> << >>] : k \in {"malformed", "not_dict", "empty"} }
    \cup { [kind |-> "valid", playlists |-> c] : c \in Configs }

LongText == [i \in 1..(MessageLimit + 1) |-> "x"]

\* Responses raise_for_status() turns into HTTPError: status, text, reason.
ErrorResponses ==
    { [status |-> 404, text |-> << >>, reason |-> <<"N", "o">>],
      [status |-> 500, text |-> LongText, reason |-> <<"E", "r", "r">>] }

\* What a request ends in: a 2xx response, an HTTPError from
\* raise_for_status(), or a requests exception that is no HTTPError (Timeout,
\* ConnectionError).
Outcomes == {"ok", "http", "timeout"}

\* An entry of the log of requests: the request (kind, the playlist it is
\* for, the ids it asks for), what it ended in, and the response where the
\* code reads it (the entries of a 2xx audio-features response, the error
\* response of a failed snapshot request).
Req(kind, slug, ids, outcome, response) ==
    [kind |-> kind, slug |-> slug, ids |-> ids, outcome |-> outcome,
     response |-> response]

\* Kinds of entries of an audio-features response, by position in the batch.
EntryKinds == <<"full", "null", "no_id">>
Patterns == {0, 1, 2}
KindAt(pattern, i) ==
    IF pattern = 0 THEN "full" ELSE EntryKinds[((i + pattern) % 3) + 1]

\* The "audio_features" list of a 2xx response to a batch.
Response(batch, pattern) ==
    [i \in 1..Len(batch) |->
        CASE KindAt(pattern, i) = "full" -> Some(FeatureEntry(Some(batch[i])))
          [] KindAt(pattern, i) = "no_id" -> Some(FeatureEntry(None))
          [] OTHER -> None]

EmptyMap == << >>

-----------------------------------------------------------------------------
(* main() *)

Slug == playlist_config[idx].slug

\* raise SystemExit(...), or an exception nothing catches: the run ends.
Abort(reason) ==
    /\ pc' = "aborted"
    /\ abort' = reason

\* Items returned so far in the run.
RECURSIVE SumLen(_, _)
SumLen(files, slugs) ==
    IF slugs = {} THEN 0
    ELSE LET s == CHOOSE x \in slugs : TRUE
         IN Len(files[s].trackItems) + SumLen(files, slugs \ {s})
ItemsSoFar ==
    SumLen(raw_files, DOMAIN raw_files)
    + (IF pc \in {"paging", "features", "normalize"} THEN Len(track_items) ELSE 0)

\* The pages a request may return: the first page of a snapshot holds no item
\* or one, a later page one; a cursor to a next page is there only while the
\* run's budget of items has room for that page.
FirstPages(room) == {<< >>} \cup (IF room > 0 THEN {<<i>> : i \in RunItems} ELSE {})
LaterPages == {<<i>> : i \in RunItems}
Cursors(room) == IF room > 0 THEN BOOLEAN ELSE {FALSE}

\* Lines 373-381: the credentials, then the playlist configuration.
LoadConfig ==
    /\ pc = "start"
    /\ IF ~creds THEN Abort("credentials") /\ UNCHANGED playlist_config
       ELSE IF config_file.kind # "valid"
       THEN Abort(config_file.kind) /\ UNCHANGED playlist_config
       ELSE /\ playlist_config' = config_file.playlists
            /\ pc' = "auth"
            /\ UNCHANGED abort
    /\ UNCHANGED <<creds, config_file, idx, track_items, next_url, track_ids,
                   batchNo, audio_features, failed_batches, playlists_payload,
                   missing_artists, skipped_playlists, raw_files, dataset,
                   requests>>

\* Line 383, get_access_token: one request; anything but a 2xx response that
\* holds an access_token ends the run.
GetAccessToken ==
    /\ pc = "auth"
    /\ \E outcome \in Outcomes \cup {"no_token"} :
          /\ requests' = Append(requests, Req("token", "", << >>, outcome, << >>))
          /\ IF outcome = "ok"
             THEN pc' = "loop" /\ idx' = 1 /\ UNCHANGED abort
             ELSE Abort("token: " \o outcome) /\ UNCHANGED idx
    /\ UNCHANGED <<creds, config_file, playlist_config, track_items, next_url,
                   track_ids, batchNo, audio_features, failed_batches,
                   playlists_payload, missing_artists, skipped_playlists,
                   raw_files, dataset>>

\* The entry with the whole message, not cut.
SkipEntryUncut(cfg, response) ==
    [playlistId |-> cfg.id[1],
     status |-> Str(response.status),
     message |-> IF response.text # << >> THEN response.text ELSE response.reason]

\* The entry main() stores for a playlist whose snapshot request raised
\* HTTPError.
SkipEntry(cfg, response) ==
    LET message == IF response.text # << >> THEN response.text
                   ELSE response.reason
    IN [playlistId |-> cfg.id[1],
        status |-> Str(response.status),
        message |-> Prefix(message, MessageLimit)]

\* Lines 393-409: the head of the loop body: the "id" check, then the snapshot
\* request; an HTTPError is caught and the playlist skipped.
FetchSnapshot ==
    /\ pc = "loop"
    /\ idx <= Len(playlist_config)
    /\ LET cfg == playlist_config[idx]
       IN IF cfg.id = None
          THEN /\ Abort("missing id")
               /\ UNCHANGED <<requests, idx, track_items, next_url,
                              skipped_playlists>>
          ELSE \E outcome \in Outcomes, response \in ErrorResponses :
                  /\ requests' = Append(requests,
                                        Req("snapshot", cfg.slug, << >>, outcome,
                                            IF outcome = "http" THEN response
                                            ELSE << >>))
                  /\ CASE outcome = "http" ->
                               /\ skipped_playlists' =
                                     (cfg.slug :> SkipEntry(cfg, response))
                                     @@ skipped_playlists
                               /\ idx' = idx + 1
                               /\ UNCHANGED <<pc, abort, track_items, next_url>>
                       [] outcome = "timeout" ->
                            /\ Abort("snapshot: " \o outcome)
                            /\ UNCHANGED <<idx, track_items, next_url,
                                           skipped_playlists>>
                       [] OTHER ->
                            \E items \in FirstPages(MaxItems - ItemsSoFar) :
                            \E next \in Cursors(MaxItems - ItemsSoFar - Len(items)) :
                               /\ track_items' = items
                               /\ next_url' = next
                               /\ pc' = "paging"
                               /\ UNCHANGED <<abort, idx, skipped_playlists>>
    /\ UNCHANGED <<creds, config_file, playlist_config, track_ids, batchNo,
                   audio_features, failed_batches, playlists_payload,
                   missing_artists, raw_files, dataset>>

\* Lines 175-180, the loop of fetch_all_playlist_tracks: one request per
\* cursor; raise_for_status() is not caught here, nor in main().
FetchPage ==
    /\ pc = "paging"
    /\ next_url
    /\ \E outcome \in Outcomes :
        /\ requests' = Append(requests, Req("page", Slug, << >>, outcome, << >>))
        /\ IF outcome = "ok"
          THEN \E items \in LaterPages :
               \E next \in Cursors(MaxItems - ItemsSoFar - Len(items)) :
                  /\ track_items' = track_items \o items
                  /\ next_url' = next
                  /\ UNCHANGED <<pc, abort>>
          ELSE /\ Abort("page: " \o outcome)
               /\ UNCHANGED <<track_items, next_url>>
    /\ UNCHANGED <<creds, config_file, playlist_config, idx, track_ids, batchNo,
                   audio_features, failed_batches, playlists_payload,
                   missing_artists, skipped_playlists, raw_files, dataset>>

\* Lines 411-414: the ids of the items, and whether fetch_audio_features is
\* called at all.
CollectIds ==
    /\ pc = "paging"
    /\ ~next_url
    /\ track_ids' = CollectTrackIds(track_items)
    /\ audio_features' = EmptyMap
    /\ failed_batches' = {}
    /\ batchNo' = 1
    /\ pc' = IF track_ids' # << >> THEN "features" ELSE "normalize"
    /\ UNCHANGED <<creds, config_file, playlist_config, idx, track_items,
                   next_url, playlists_payload, missing_artists,
                   skipped_playlists, raw_files, dataset, requests, abort>>

\* The HTTPError of a batch request left uncaught.
BatchFailedRaises(after) ==
    /\ Abort("features: http")
    /\ UNCHANGED <<batchNo, audio_features, failed_batches>>

\* Lines 258-264, the except clause of fetch_audio_features: the warning,
\* then "continue".
BatchFailed(after) ==
    /\ failed_batches' = failed_batches \cup {batchNo}
    /\ batchNo' = batchNo + 1
    /\ pc' = after
    /\ UNCHANGED <<audio_features, abort>>

\* Lines 249-268, one turn of the loop of fetch_audio_features (and its return
\* when no batch is left): the request for the next batch; an HTTPError is
\* caught and the batch passed over.
FetchFeatureBatch ==
    /\ pc = "features"
    /\ LET batches == chunked(track_ids, BatchSize)
           after == IF batchNo >= Len(batches) THEN "normalize" ELSE "features"
       IN IF batchNo > Len(batches)
          THEN /\ pc' = "normalize"
               /\ UNCHANGED <<requests, batchNo, audio_features, failed_batches,
                              abort>>
          ELSE \E outcome \in Outcomes, pattern \in Patterns :
                  LET batch == batches[batchNo]
                      entries == IF outcome = "ok" THEN Response(batch, pattern)
                                 ELSE << >>
                  IN /\ requests' = Append(requests,
                                           Req("features",
                                               IF idx = 0 THEN "" ELSE Slug,
                                               batch, outcome, entries))
                     /\ CASE outcome = "http" -> BatchFailed(after)
                          [] outcome = "timeout" ->
                               /\ Abort("features: " \o outcome)
                               /\ UNCHANGED <<batchNo, audio_features,
                                              failed_batches>>
                          [] OTHER ->
                               /\ audio_features' =
                                     StoreEntries(entries, audio_features)
                               /\ batchNo' = batchNo + 1
                               /\ pc' = after
                               /\ UNCHANGED <<failed_batches, abort>>
    /\ UNCHANGED <<creds, config_file, playlist_config, idx, track_items,
                   next_url, track_ids, playlists_payload, missing_artists,
                   skipped_playlists, raw_files, dataset>>

\* Lines 416-443: normalize_playlist, the run-wide missing artists and the raw
\* file; the AttributeError of normalize_playlist ends the run.
Normalize ==
    /\ pc = "normalize"
    /\ LET cfg == playlist_config[idx]
           r == normalize_playlist(cfg.slug, track_items, audio_features, {})
       IN IF r.raised
          THEN /\ Abort("normalize: AttributeError")
               /\ UNCHANGED <<idx, playlists_payload, missing_artists, raw_files>>
          ELSE /\ playlists_payload' = Append(playlists_payload, r.record)
               /\ missing_artists' = missing_artists \cup r.missing
               /\ raw_files' =
                     (cfg.slug :> [playlistId |-> cfg.id[1],
                                   trackItems |-> track_items,
                                   audioFeatures |-> audio_features,
                                   missingArtists |-> Sorted(r.missing)])
                     @@ raw_files
               /\ idx' = idx + 1
               /\ pc' = "loop"
               /\ UNCHANGED abort
    /\ UNCHANGED <<creds, config_file, playlist_config, track_items, next_url,
                   track_ids, batchNo, audio_features, failed_batches,
                   skipped_playlists, dataset, requests>>

\* The dataset with playlistCount counting the configured playlists.
WriteDatasetCountsConfigured ==
    /\ pc = "loop"
    /\ idx > Len(playlist_config)
    /\ dataset' = Some(
          [playlists |-> playlists_payload,
           runMetadata |-> [playlistCount |-> Len(playlist_config),
                            missingArtists |-> Sorted(missing_artists),
                            skippedPlaylists |-> skipped_playlists]])
    /\ pc' = "done"
    /\ UNCHANGED <<creds, config_file, playlist_config, idx, track_items,
                   next_url, track_ids, batchNo, audio_features, failed_batches,
                   playlists_payload, missing_artists, skipped_playlists,
                   raw_files, requests, abort>>

\* Lines 445-463: the dataset, written once the loop is over.
WriteDataset ==
    /\ pc = "loop"
    /\ idx > Len(playlist_config)
    /\ dataset' = Some(
          [playlists |-> playlists_payload,
           runMetadata |-> [playlistCount |-> Len(playlists_payload),
                            missingArtists |-> Sorted(missing_artists),
                            skippedPlaylists |-> skipped_playlists]])
    /\ pc' = "done"
    /\ UNCHANGED <<creds, config_file, playlist_config, idx, track_items,
                   next_url, track_ids, batchNo, audio_features, failed_batches,
                   playlists_payload, missing_artists, skipped_playlists,
                   raw_files, requests, abort>>

Init ==
    /\ pc = "start"
    /\ creds \in BOOLEAN
    /\ config_file \in ConfigFiles
    /\ playlist_config = << >>
    /\ idx = 0
    /\ track_items = << >>
    /\ next_url = FALSE
    /\ track_ids = << >>
    /\ batchNo = 1
    /\ audio_features = EmptyMap
    /\ failed_batches = {}
    /\ playlists_payload = << >>
    /\ missing_artists = {}
    /\ skipped_playlists = EmptyMap
    /\ raw_files = EmptyMap
    /\ dataset = None
    /\ requests = << >>
    /\ abort = ""

Next ==
    \/ LoadConfig
    \/ GetAccessToken
    \/ FetchSnapshot
    \/ FetchPage
    \/ CollectIds
    \/ FetchFeatureBatch
    \/ Normalize
    \/ WriteDataset

Spec == Init /\ [][Next]_vars

-----------------------------------------------------------------------------
(* fetch_audio_features on its own: called with a list of ids, run to its    *)
(* return (pc = "normalize") or to the exception that leaves it.            *)

\* Lengths around the batch size, and ids that are all distinct or repeat
\* (with a period that is no multiple of the batch size).
IdLists ==
    { [i \in 1..n |-> ((i - 1) % m) + 1] :
        n \in {0, 1, BatchSize - 1, BatchSize, BatchSize + 1, 2 * BatchSize, MaxIds},
        m \in {MaxIds + 1, BatchSize + 20} }

InitFeatures ==
    /\ pc = "features"
    /\ creds = TRUE
    /\ config_file = [kind |-> "valid", playlists |-> << >>]
    /\ playlist_config = << >>
    /\ idx = 0
    /\ track_items = << >>
    /\ next_url = FALSE
    /\ track_ids \in IdLists
    /\ batchNo = 1
    /\ audio_features = EmptyMap
    /\ failed_batches = {}
    /\ playlists_payload = << >>
    /\ missing_artists = {}
    /\ skipped_playlists = EmptyMap
    /\ raw_files = EmptyMap
    /\ dataset = None
    /\ requests = << >>
    /\ abort = ""

SpecFeatures == InitFeatures /\ [][FetchFeatureBatch]_vars

-----------------------------------------------------------------------------
(* normalize_playlist on its own: main() at line 416 with a list of track   *)
(* items and a feature map, run through the raw file.                       *)

RECURSIVE ItemLists(_)
ItemLists(n) ==
    IF n = 0 THEN {<< >>}
    ELSE LET shorter == ItemLists(n - 1)
         IN shorter \cup {Append(l, i) : l \in shorter, i \in ItemPool}

\* No features at all, or those of every id of the list.
FeatureMaps(items) ==
    {EmptyMap, StoreEntries(Response(CollectTrackIds(items), 0), EmptyMap)}

InitNormalize ==
    /\ pc = "normalize"
    /\ creds = TRUE
    /\ config_file = [kind |-> "valid",
                      playlists |-> <<[slug |-> Slugs[1], id |-> Some(PlaylistIds[1])]>>]
    /\ playlist_config = config_file.playlists
    /\ idx = 1
    /\ track_items \in ItemLists(MaxTrackItems)
    /\ next_url = FALSE
    /\ track_ids = CollectTrackIds(track_items)
    /\ batchNo = 1
    /\ audio_features \in FeatureMaps(track_items)
    /\ failed_batches = {}
    /\ playlists_payload = << >>
    /\ missing_artists = {}
    /\ skipped_playlists = EmptyMap
    /\ raw_files = EmptyMap
    /\ dataset = None
    /\ requests = << >>
    /\ abort = ""

SpecNormalize == InitNormalize /\ [][Normalize]_vars

-----------------------------------------------------------------------------
(* Vocabulary of the properties. *)

EmittedSlugs == {playlists_payload[i].id : i \in 1..Len(playlists_payload)}
SkippedSlugs == DOMAIN skipped_playlists
ConfigSlugs == [i \in 1..Len(playlist_config) |-> playlist_config[i].slug]
LastRequest == requests[Len(requests)]
RequestsOf(slug, kinds) ==
    {i \in 1..Len(requests) : requests[i].slug = slug /\ requests[i].kind \in kinds}

\* An item the spec excludes: no nested track, a local file, or no id.
Dropped(item) == item.kind # "track" \/ item.is_local \/ item.id = None
Kept(item) == ~Dropped(item)

\* The record of an emitted slug, and the items fetched for it.
RecordOf(slug) ==
    playlists_payload[CHOOSE i \in 1..Len(playlists_payload) :
                         playlists_payload[i].id = slug]
ItemsOf(slug) == raw_files[slug].trackItems

-----------------------------------------------------------------------------
\* C1: when the run ends because a playlist entry has no "id", no network
\* request (token, snapshot, pagination, audio features) has been issued.
C1_AbortsBeforeAnyRequest ==
    (pc = "aborted" /\ abort = "missing id") => requests = << >>

\* C2: an item whose nested track is absent, null, local or id-less gets no
\* payload, is not among the tracks of the emitted record, and its id is not
\* among the ids handed to the audio-feature fetch: every id handed over is
\* the id of an item that is kept.
C2_DroppedItemsContributeNothing ==
    /\ \A item \in ItemPool :
          Dropped(item) =>
             build_track_payload(item, None, artist_metadata, {}).payload = None
    /\ \A slug \in EmittedSlugs :
          Len(RecordOf(slug).tracks) = Len(SelectSeq(ItemsOf(slug), Kept))
    /\ pc \in {"features", "normalize"} =>
          \A k \in 1..Len(track_ids) :
             \E i \in 1..Len(track_items) :
                Kept(track_items[i]) /\ track_items[i].id = Some(track_ids[k])

\* The skip entry the spec describes for each error response: the catalog id,
\* the status code as a string, the message cut to 200 characters.
ExpectedSkip(playlistId, response) ==
    [playlistId |-> playlistId,
     status |-> CASE response.status = 404 -> <<"4", "0", "4">>
                  [] response.status = 500 -> <<"5", "0", "0">>,
     message |-> CASE response.status = 404 -> <<"N", "o">>
                   [] response.status = 500 -> [i \in 1..200 |-> "x"]]

\* C3: a playlist whose snapshot request failed with an HTTP error status is
\* skipped and the loop goes on to the next playlist: it has no raw file, no
\* record in playlists, no pagination or audio-feature request, and an entry
\* in skippedPlaylists (and in the written dataset) under its slug with its
\* catalog id, the status as a string and the message cut to 200 characters.
C3_SnapshotFailureIsSkip ==
    \A i \in 1..Len(requests) :
       (requests[i].kind = "snapshot" /\ requests[i].outcome = "http") =>
          LET slug == requests[i].slug
              k == CHOOSE j \in 1..Len(playlist_config) :
                      playlist_config[j].slug = slug
              expected == ExpectedSkip(playlist_config[k].id[1],
                                       requests[i].response)
          IN /\ slug \in SkippedSlugs
             /\ skipped_playlists[slug] = expected
             /\ Len(skipped_playlists[slug].message) <= 200
             /\ slug \notin DOMAIN raw_files
             /\ slug \notin EmittedSlugs
             /\ RequestsOf(slug, {"page", "features"}) = {}
             /\ k < idx
             /\ dataset # None =>
                  /\ slug \in DOMAIN dataset[1].runMetadata.skippedPlaylists
                  /\ dataset[1].runMetadata.skippedPlaylists[slug] = expected
                  /\ \A j \in 1..Len(dataset[1].playlists) :
                        dataset[1].playlists[j].id # slug

\* C3, its case: a run that ended normally with playlist "a" skipped on a
\* response whose text was cut to 200 characters, and the next one emitted.
C3_Witness ==
    /\ pc = "done"
    /\ "a" \in SkippedSlugs
    /\ Len(skipped_playlists["a"].message) = 200
    /\ EmittedSlugs = {"b"}

-----------------------------------------------------------------------------
\* The ids for which a 2xx audio-features response for a slug held an entry.
AnsweredIds(slug) ==
    UNION { { requests[i].response[j][1].id[1] :
                j \in {j \in 1..Len(requests[i].response) :
                          /\ requests[i].response[j] # None
                          /\ requests[i].response[j][1].id # None} }
            : i \in {i \in RequestsOf(slug, {"features"}) :
                        requests[i].outcome = "ok"} }

\* A later-stage request (pagination, audio features) of a slug that failed
\* with an HTTP error status.
LaterFailures ==
    {i \in 1..Len(requests) :
        requests[i].kind \in {"page", "features"} /\ requests[i].outcome = "http"}

\* C4 as stated: once the run has ended, every playlist with a failed
\* pagination or audio-feature request is emitted, has its raw file and is
\* not in skippedPlaylists.
C4_LaterFailureStillEmitted ==
    pc \in {"done", "aborted"} =>
       \A i \in LaterFailures :
          /\ requests[i].slug \in EmittedSlugs
          /\ requests[i].slug \in DOMAIN raw_files
          /\ requests[i].slug \notin SkippedSlugs

\* C4 amended, the states: no later-stage failure makes a skip.  A failed
\* pagination request ends the run with the playlist not emitted and no raw
\* file.  An emitted playlist has its raw file, is not skipped, and its tracks
\* carry features only where a successful batch answered for their id.
C4_LaterFailureStates ==
    /\ \A i \in LaterFailures : requests[i].slug \notin SkippedSlugs
    /\ \A slug \in SkippedSlugs :
          /\ RequestsOf(slug, {"page", "features"}) = {}
          /\ \E i \in RequestsOf(slug, {"snapshot"}) : requests[i].outcome = "http"
    /\ \A i \in 1..Len(requests) :
          (requests[i].kind = "page" /\ requests[i].outcome = "http") =>
             /\ pc = "aborted"
             /\ i = Len(requests)
             /\ requests[i].slug \notin EmittedSlugs
             /\ requests[i].slug \notin DOMAIN raw_files
    /\ \A slug \in EmittedSlugs :
          /\ slug \in DOMAIN raw_files
          /\ slug \notin SkippedSlugs
          /\ \A j \in 1..Len(RecordOf(slug).tracks) :
                RecordOf(slug).tracks[j].features # None
                   <=> RecordOf(slug).tracks[j].id \in AnsweredIds(slug)

\* C4 amended, the steps: the step in which an audio-feature batch fails with
\* an HTTP error status does not end the run; it goes on to the next batch or
\* to normalisation, the map unchanged.
C4_FailedBatchStep ==
    (/\ Len(requests') = Len(requests) + 1
     /\ requests'[Len(requests')].kind = "features"
     /\ requests'[Len(requests')].outcome = "http")
    => /\ pc' \in {"features", "normalize"}
       /\ audio_features' = audio_features
       /\ skipped_playlists' = skipped_playlists

\* C4 amended: a failed audio-feature batch is neither a skip nor the end of
\* the run, and the playlist, when emitted, has its raw file and lacks the
\* features no successful batch answered; a failed pagination request is no
\* skip either, but ends the run before the playlist is emitted or its raw
\* file written.
C4_LaterFailureIsNoSkip ==
    [](C4_LaterFailureStates) /\ [][C4_FailedBatchStep]_vars

\* C4, its case: a finished run that emitted playlist "a" although its
\* audio-feature batch failed, with a raw file and a track without features.
C4_Witness ==
    /\ pc = "done"
    /\ \E i \in RequestsOf("a", {"features"}) : requests[i].outcome = "http"
    /\ "a" \in EmittedSlugs
    /\ "a" \in DOMAIN raw_files
    /\ \E j \in 1..Len(RecordOf("a").tracks) : RecordOf("a").tracks[j].features = None

-----------------------------------------------------------------------------
(* fetch_audio_features, under SpecFeatures. *)

\* The k-th batch of a list of ids: the next at most 100 ids in input order.
ExpectedBatch(ids, k) ==
    SubSeq(ids, 100 * (k - 1) + 1, Min(100 * k, Len(ids)))

OkBatches == {i \in 1..Len(requests) : requests[i].outcome = "ok"}
BatchIds(i) == Range(requests[i].ids)

\* Every request so far is the next batch; no failed batch ended the call;
\* at the return there were ceil(n / 100) requests, and the map has no entry
\* for an id that no successful batch held.
BatchesAsSpecified ==
    /\ \A i \in 1..Len(requests) :
          /\ requests[i].kind = "features"
          /\ requests[i].ids = ExpectedBatch(track_ids, i)
    /\ pc = "aborted" => LastRequest.outcome = "timeout"
    /\ pc = "normalize" =>
          /\ Len(requests) = (Len(track_ids) + 99) \div 100
          /\ \A id \in DOMAIN audio_features : \E i \in OkBatches : id \in BatchIds(i)

\* C5 as stated: the batches are as specified, and at the return the map
\* holds the features of every id of every successful batch.
C5_EveryIdOfSuccessfulBatch ==
    /\ BatchesAsSpecified
    /\ pc = "normalize" =>
          \A i \in OkBatches : \A id \in BatchIds(i) :
             id \in DOMAIN audio_features /\ audio_features[id].id = Some(id)

\* C5 amended: the batches are as specified (n ids give ceil(n / 100)
\* requests of the next at most 100 ids each, none for no ids; a failed batch
\* does not stop the later ones), and at the return the map holds exactly the
\* ids for which the response of a successful batch held an entry with that
\* id (null entries and entries without id are passed over), each with such an
\* entry, and no entry for ids that occur only in failed batches.
C5_EveryEntryOfSuccessfulBatch ==
    /\ BatchesAsSpecified
    /\ pc = "normalize" =>
          /\ DOMAIN audio_features = AnsweredIds("")
          /\ \A id \in DOMAIN audio_features :
                /\ audio_features[id].id = Some(id)
                /\ \E i \in OkBatches : Some(audio_features[id]) \in Range(requests[i].response)

\* C5, its case: 250 ids, three requests of 100, 100 and 50 ids, the second
\* failed, and ids of the first and of the third batch in the map.
C5_Witness ==
    /\ pc = "normalize"
    /\ Len(track_ids) = 250
    /\ [i \in 1..Len(requests) |-> Len(requests[i].ids)] = <<100, 100, 50>>
    /\ [i \in 1..Len(requests) |-> requests[i].outcome] = <<"ok", "http", "ok">>
    /\ track_ids[1] \in DOMAIN audio_features
    /\ track_ids[250] \in DOMAIN audio_features
    /\ track_ids[150] \notin DOMAIN audio_features

-----------------------------------------------------------------------------
\* C6: a request that times out ends the run when it is the token request or
\* a pagination request; the run goes on when it is an audio-feature batch
\* (to the next batch) or a snapshot request (the slug recorded as skipped).
C6_TimeoutByStage ==
    (requests # << >> /\ LastRequest.outcome = "timeout") =>
       CASE LastRequest.kind \in {"token", "page"} -> pc = "aborted"
         [] LastRequest.kind = "snapshot" ->
               pc # "aborted" /\ LastRequest.slug \in SkippedSlugs
         [] LastRequest.kind = "features" -> pc # "aborted"

-----------------------------------------------------------------------------
(* normalize_playlist, under SpecNormalize. *)

\* C7: for every list of track items, those with no nested track, a local
\* flag or no id among them, the run does not end in normalize_playlist: a
\* record is emitted, and its tracks are those of the remaining items, in
\* their order.
C7_DroppedItemsAreSilent ==
    pc # "normalize" =>
       /\ pc # "aborted"
       /\ Len(playlists_payload) = 1
       /\ LET kept == SelectSeq(track_items, Kept)
          IN [j \in 1..Len(playlists_payload[1].tracks) |->
                 playlists_payload[1].tracks[j].id]
             = [j \in 1..Len(kept) |-> kept[j].id[1]]

\* The items of a list that have a release year, in the order of the list.
HasYear(item) ==
    item.kind = "track" /\ parse_release_year(item.release_date) # None

\* C8: the launchYear of an emitted record is the release year of the first
\* item, in the unfiltered order, that has one, kept or not; it is absent
\* exactly when no item has a release year.
C8_LaunchYearOfFirstDated ==
    Len(playlists_payload) = 1 =>
       LET dated == SelectSeq(track_items, HasYear)
       IN playlists_payload[1].launchYear =
             IF dated = << >> THEN None
             ELSE parse_release_year(dated[1].release_date)

-----------------------------------------------------------------------------
(* The run's metadata, under Spec. *)

\* A kept item whose first-listed artist has a non-empty name.
HasPrimary(item) ==
    Kept(item) /\ item.artists # << >> /\ item.artists[1] # << >>
Unmatched(item) == HasPrimary(item) /\ item.artists[1] \notin DOMAIN artist_metadata
Matched(item) == HasPrimary(item) /\ item.artists[1] \in DOMAIN artist_metadata

\* The unmatched primary artists of the emitted playlists.
UnmatchedArtists ==
    UNION { { ItemsOf(slug)[i].artists[1] :
                i \in {i \in 1..Len(ItemsOf(slug)) : Unmatched(ItemsOf(slug)[i])} }
            : slug \in EmittedSlugs }

\* Strictly increasing in the order of strings: sorted, and no name twice.
StrictlySorted(names) ==
    \A i \in 1..(Len(names) - 1) : StrLess(names[i], names[i + 1])

\* C9: an emitted track whose primary artist is not in the artist metadata
\* carries "Unknown", "Unknown", false (and one whose artist is there, that
\* artist's metadata); the run's missing artists are exactly the unmatched
\* primary artists of the emitted tracks, and the written missingArtists is
\* that set, sorted, each name once.
C9_MissingArtists ==
    /\ \A slug \in EmittedSlugs :
          LET kept == SelectSeq(ItemsOf(slug), Kept)
              tracks == RecordOf(slug).tracks
          IN /\ Len(tracks) = Len(kept)
             /\ \A j \in 1..Len(kept) :
                   /\ Unmatched(kept[j]) =>
                         /\ tracks[j].artistCountry = "Unknown"
                         /\ tracks[j].regionGroup = "Unknown"
                         /\ tracks[j].diaspora = FALSE
                   /\ Matched(kept[j]) =>
                         /\ tracks[j].artistCountry
                               = artist_metadata[kept[j].artists[1]].artistCountry
                         /\ tracks[j].regionGroup
                               = artist_metadata[kept[j].artists[1]].regionGroup
                         /\ tracks[j].diaspora
                               = artist_metadata[kept[j].artists[1]].diaspora
    /\ missing_artists = UnmatchedArtists
    /\ dataset # None =>
          /\ StrictlySorted(dataset[1].runMetadata.missingArtists)
          /\ Range(dataset[1].runMetadata.missingArtists) = UnmatchedArtists

\* C9, its case: a finished run of two emitted playlists, each with a track by
\* the unmatched "Zed" that carries "Unknown", and a missingArtists that names
\* "Zed" once.
C9_Witness ==
    /\ pc = "done"
    /\ EmittedSlugs = {"a", "b"}
    /\ \A slug \in EmittedSlugs :
          /\ ItemsOf(slug) = <<ZedItem>>
          /\ RecordOf(slug).tracks[1].artistCountry = "Unknown"
    /\ dataset[1].runMetadata.missingArtists = <<Zed>>

NotSkipped(slug) == slug \notin SkippedSlugs

\* C10: at every point of the run each slug the loop is past is in exactly
\* one of playlists and skippedPlaylists and no other slug is in either; the
\* playlists are in configuration order without the skipped ones; and in the
\* written dataset playlistCount is the number of playlists, and with the
\* number of skipped playlists it adds up to the number configured.
C10_EmittedOrSkipped ==
    /\ \A i \in 1..Len(playlist_config) :
          IF i < idx
          THEN (ConfigSlugs[i] \in EmittedSlugs) # (ConfigSlugs[i] \in SkippedSlugs)
          ELSE ConfigSlugs[i] \notin EmittedSlugs \cup SkippedSlugs
    /\ EmittedSlugs \cup SkippedSlugs \subseteq Range(ConfigSlugs)
    /\ [i \in 1..Len(playlists_payload) |-> playlists_payload[i].id]
          = SelectSeq(SubSeq(ConfigSlugs, 1, Min(idx - 1, Len(ConfigSlugs))),
                      NotSkipped)
    /\ dataset # None =>
          /\ dataset[1].playlists = playlists_payload
          /\ DOMAIN dataset[1].runMetadata.skippedPlaylists = SkippedSlugs
          /\ dataset[1].runMetadata.playlistCount = Len(dataset[1].playlists)
          /\ dataset[1].runMetadata.playlistCount
                + Cardinality(DOMAIN dataset[1].runMetadata.skippedPlaylists)
             = Len(playlist_config)

\* C10, its case: a finished run over two playlists, the first skipped and
\* the second emitted.
C10_Witness ==
    /\ pc = "done"
    /\ Len(playlist_config) = 2
    /\ SkippedSlugs = {"a"}
    /\ dataset[1].runMetadata.playlistCount = 1
    /\ dataset[1].playlists[1].id = "b"

=============================================================================
